---- MODULE Spec2Model ----
(***************************************************************************)
(* A model of the transpiler of src/main.rs: the QASM parser, the router,  *)
(* the two optimization passes, the depth metric and the transpile         *)
(* pipeline.                                                               *)
(*                                                                         *)
(* Text is a sequence of lines, a line a sequence of one-character         *)
(* strings.  A gate name is such a sequence too, so that what the parser   *)
(* cuts out of a line is what the passes compare.  An f64 angle is a       *)
(* fixed-point integer counting 1e-4 rad: the decimal literals of the      *)
(* sample programs have at most four fractional digits, and on them the    *)
(* code's sums differ from the exact ones by far less than its 1e-10       *)
(* threshold.  An f64 percentage is kept as the fraction the code          *)
(* computes, [num, den]; den = 0 is the NaN that 0.0 / 0.0 gives.          *)
(***************************************************************************)
EXTENDS Integers, Sequences, FiniteSets, TLC

\* ------------------------------------------------------------------ bounds

\* Longest sample program drawn freely from SampleLines, in lines.
MaxLines == 3

\* Longest gate list drawn freely from SampleGates.
MaxGates == 4

\* ------------------------------------------------------------ text helpers

Digits == {"0", "1", "2", "3", "4", "5", "6", "7", "8", "9"}

DigitVal(c) ==
  CASE c = "0" -> 0 [] c = "1" -> 1 [] c = "2" -> 2 [] c = "3" -> 3
    [] c = "4" -> 4 [] c = "5" -> 5 [] c = "6" -> 6 [] c = "7" -> 7
    [] c = "8" -> 8 [] c = "9" -> 9

IsWhitespace(c) == c \in {" ", "\t"}

Last(s) == s[Len(s)]

Front(s) == SubSeq(s, 1, Len(s) - 1)

RECURSIVE TrimStart(_)
TrimStart(s) ==
  IF s # <<>> /\ IsWhitespace(Head(s)) THEN TrimStart(Tail(s)) ELSE s

RECURSIVE TrimEnd(_)
TrimEnd(s) ==
  IF s # <<>> /\ IsWhitespace(Last(s)) THEN TrimEnd(Front(s)) ELSE s

\* str::trim
Trim(s) == TrimEnd(TrimStart(s))

\* str::trim_end_matches(c)
RECURSIVE TrimEndMatches(_, _)
TrimEndMatches(s, c) ==
  IF s # <<>> /\ Last(s) = c THEN TrimEndMatches(Front(s), c) ELSE s

\* str::starts_with(p)
StartsWith(s, p) == Len(s) >= Len(p) /\ SubSeq(s, 1, Len(p)) = p

\* str::split(delims): the pieces between delimiters, empty pieces kept.
RECURSIVE SplitAcc(_, _, _, _)
SplitAcc(s, delims, cur, acc) ==
  IF s = <<>> THEN Append(acc, cur)
  ELSE IF Head(s) \in delims
       THEN SplitAcc(Tail(s), delims, <<>>, Append(acc, cur))
       ELSE SplitAcc(Tail(s), delims, Append(cur, Head(s)), acc)

Split(s, delims) == SplitAcc(s, delims, <<>>, <<>>)

RECURSIVE NonEmpty(_)
NonEmpty(ss) ==
  IF ss = <<>> THEN <<>>
  ELSE IF Head(ss) = <<>> THEN NonEmpty(Tail(ss))
       ELSE <<Head(ss)>> \o NonEmpty(Tail(ss))

\* str::split_whitespace: the non-empty pieces between whitespace.
SplitWhitespace(s) == NonEmpty(Split(s, {" ", "\t"}))

\* [&str]::join(" ")
RECURSIVE JoinSpace(_)
JoinSpace(ss) ==
  IF ss = <<>> THEN <<>>
  ELSE IF Len(ss) = 1 THEN Head(ss)
       ELSE Head(ss) \o <<" ">> \o JoinSpace(Tail(ss))

\* str::find(c): the index (from 1) of the first c, 0 when there is none.
RECURSIVE FindFrom(_, _, _)
FindFrom(s, c, i) ==
  IF i > Len(s) THEN 0 ELSE IF s[i] = c THEN i ELSE FindFrom(s, c, i + 1)

Find(s, c) == FindFrom(s, c, 1)

AllDigits(s) == \A i \in 1..Len(s) : s[i] \in Digits

RECURSIVE DigitsVal(_, _)
DigitsVal(s, acc) ==
  IF s = <<>> THEN acc ELSE DigitsVal(Tail(s), 10 * acc + DigitVal(Head(s)))

\* str::parse::<usize>(): an optional "+", then one digit or more.  (A number
\* past usize::MAX is an Err in the code; the sample texts hold none.)
ParseUsize(s) ==
  LET body == IF s # <<>> /\ Head(s) = "+" THEN Tail(s) ELSE s
  IN  IF body # <<>> /\ AllDigits(body)
      THEN [ok |-> TRUE, val |-> DigitsVal(body, 0)]
      ELSE [ok |-> FALSE, val |-> 0]

RECURSIVE Pow10(_)
Pow10(n) == IF n = 0 THEN 1 ELSE 10 * Pow10(n - 1)

\* str::parse::<f64>() on a decimal literal [sign] digits [. digits], in
\* units of 1e-4 (fractional digits past the fourth are cut).
ParseF64(s) ==
  LET neg  == s # <<>> /\ Head(s) = "-"
      body == IF s # <<>> /\ Head(s) \in {"-", "+"} THEN Tail(s) ELSE s
      dot  == Find(body, ".")
      ip   == IF dot = 0 THEN body ELSE SubSeq(body, 1, dot - 1)
      fp   == IF dot = 0 THEN <<>> ELSE SubSeq(body, dot + 1, Len(body))
      fp4  == IF Len(fp) > 4 THEN SubSeq(fp, 1, 4) ELSE fp
      mag  == DigitsVal(ip, 0) * 10000 + DigitsVal(fp4, 0) * Pow10(4 - Len(fp4))
  IN  IF AllDigits(ip) /\ AllDigits(fp) /\ Len(ip) + Len(fp) > 0
      THEN [ok |-> TRUE, val |-> IF neg THEN 0 - mag ELSE mag]
      ELSE [ok |-> FALSE, val |-> 0]

\* ------------------------------------------------------------- data model

\* struct Gate
Gate(name, qubits, params) ==
  [name |-> name, qubits |-> qubits, params |-> params]

\* struct QuantumCircuit
QuantumCircuit(nq, nc, gates) ==
  [num_qubits |-> nq, num_clbits |-> nc, gates |-> gates]

\* struct BackendSpec: the coupling map is all the code reads of it.
BackendSpec(name, nq, edges) ==
  [name |-> name, num_qubits |-> nq, coupling_map |-> edges]

H == <<"h">>
X == <<"x">>
CX == <<"c", "x">>
RZ == <<"r", "z">>
SWAP == <<"s", "w", "a", "p">>

\* ------------------------------------------------------------------ parser

RECURSIVE CollectUsize(_)
CollectUsize(parts) ==
  IF parts = <<>> THEN <<>>
  ELSE LET r == ParseUsize(Head(parts))
       IN  (IF r.ok THEN <<r.val>> ELSE <<>>) \o CollectUsize(Tail(parts))

\* QASMParser::parse_gate on a trimmed, non-empty line.
parse_gate(line) ==
  LET tokens == SplitWhitespace(line)
      first  == TrimEndMatches(Head(tokens), ";")
      idx    == Find(first, "(")
      name   == IF idx # 0 THEN SubSeq(first, 1, idx - 1) ELSE first
      rest   == SubSeq(first, idx + 1, Len(first))
      angle  == ParseF64(TrimEndMatches(rest, ")")).val
      params == IF idx # 0 THEN <<angle>> ELSE <<>>
      line_qubits_part == JoinSpace(Tail(tokens))
      qubits == CollectUsize(Split(line_qubits_part, {"[", "]", " ", ";", ","}))
  IN  IF qubits = <<>>
      THEN [ok |-> FALSE, err |-> line]
      ELSE [ok |-> TRUE, gate |-> Gate(name, qubits, params)]

\* The size a qreg or creg line declares: the text between the first two
\* bracket characters, 0 when it is no number; `old` when there is no bracket.
RegSize(line, old) ==
  LET parts == Split(line, {"[", "]"})
  IN  IF Len(parts) >= 2
      THEN (IF ParseUsize(parts[2]).ok THEN ParseUsize(parts[2]).val ELSE 0)
      ELSE old

IsGateLine(line) ==
  \/ StartsWith(line, CX)
  \/ StartsWith(line, H)
  \/ StartsWith(line, X)
  \/ StartsWith(line, RZ)

\* ParseLoop as it would be dropping the gate lines parse_gate rejects.
RECURSIVE ParseLoop_SkipBad(_, _)
ParseLoop_SkipBad(lines, acc) ==
  IF lines = <<>> THEN [ok |-> TRUE, circ |-> acc]
  ELSE
    LET line == Trim(Head(lines))
        more == Tail(lines)
    IN  IF line = <<>> \/ StartsWith(line, <<"/", "/">>)
        THEN ParseLoop_SkipBad(more, acc)
        ELSE IF StartsWith(line, <<"q", "r", "e", "g">>)
        THEN ParseLoop_SkipBad(more,
               [acc EXCEPT !.num_qubits = RegSize(line, acc.num_qubits)])
        ELSE IF StartsWith(line, <<"c", "r", "e", "g">>)
        THEN ParseLoop_SkipBad(more,
               [acc EXCEPT !.num_clbits = RegSize(line, acc.num_clbits)])
        ELSE IF IsGateLine(line) /\ parse_gate(line).ok
        THEN ParseLoop_SkipBad(more,
               [acc EXCEPT !.gates = Append(acc.gates, parse_gate(line).gate)])
        ELSE ParseLoop_SkipBad(more, acc)

\* The loop of QASMParser::parse over the lines that remain; an Err of
\* parse_gate leaves it at once (the `?`).
RECURSIVE ParseLoop(_, _)
ParseLoop(lines, acc) ==
  IF lines = <<>> THEN [ok |-> TRUE, circ |-> acc]
  ELSE
    LET line == Trim(Head(lines))
        more == Tail(lines)
    IN  IF line = <<>> \/ StartsWith(line, <<"/", "/">>)
        THEN ParseLoop(more, acc)
        ELSE IF StartsWith(line, <<"q", "r", "e", "g">>)
        THEN ParseLoop(more,
               [acc EXCEPT !.num_qubits = RegSize(line, acc.num_qubits)])
        ELSE IF StartsWith(line, <<"c", "r", "e", "g">>)
        THEN ParseLoop(more,
               [acc EXCEPT !.num_clbits = RegSize(line, acc.num_clbits)])
        ELSE IF IsGateLine(line)
        THEN LET g == parse_gate(line)
             IN  IF g.ok
                 THEN ParseLoop(more,
                        [acc EXCEPT !.gates = Append(acc.gates, g.gate)])
                 ELSE [ok |-> FALSE, err |-> g.err]
        ELSE ParseLoop(more, acc)

\* QASMParser::parse
parse(input) == ParseLoop(input, QuantumCircuit(0, 0, <<>>))

\* ------------------------------------------------------------------ router

\* edge_ok as it would be with the reverse order forgotten.
edge_ok_OneWay(backend, q1, q2) == <<q1, q2>> \in backend.coupling_map

\* Vec::contains on the coupling map, in either order.
edge_ok(backend, q1, q2) ==
  \/ <<q1, q2>> \in backend.coupling_map
  \/ <<q2, q1>> \in backend.coupling_map

RECURSIVE RouteGates(_, _)
RouteGates(gates, backend) ==
  IF gates = <<>> THEN <<>>
  ELSE
    LET g == Head(gates)
        swap == IF Len(g.qubits) = 2 /\ ~edge_ok(backend, g.qubits[1], g.qubits[2])
                THEN <<Gate(SWAP, <<g.qubits[1], g.qubits[2]>>, <<>>)>>
                ELSE <<>>
    IN  swap \o <<g>> \o RouteGates(Tail(gates), backend)

\* SimpleRouter::route
route(circuit, backend) ==
  QuantumCircuit(circuit.num_qubits, circuit.num_clbits,
                 RouteGates(circuit.gates, backend))

\* ------------------------------------------------------------------ passes

\* CancelFrom as it would be comparing the names alone.
RECURSIVE CancelFrom_NameOnly(_, _)
CancelFrom_NameOnly(gates, i) ==
  IF i > Len(gates) THEN <<>>
  ELSE IF i + 1 <= Len(gates) /\ gates[i].name = gates[i + 1].name
       THEN CancelFrom_NameOnly(gates, i + 2)
       ELSE <<gates[i]>> \o CancelFrom_NameOnly(gates, i + 1)

\* The while loop of GateCancellationPass::optimize from index i (from 1).
RECURSIVE CancelFrom(_, _)
CancelFrom(gates, i) ==
  IF i > Len(gates) THEN <<>>
  ELSE IF /\ i + 1 <= Len(gates)
          /\ gates[i].name = gates[i + 1].name
          /\ gates[i].qubits = gates[i + 1].qubits
       THEN CancelFrom(gates, i + 2)
       ELSE <<gates[i]>> \o CancelFrom(gates, i + 1)

\* GateCancellationPass::optimize
GateCancellationPass(circuit) ==
  QuantumCircuit(circuit.num_qubits, circuit.num_clbits,
                 CancelFrom(circuit.gates, 1))

Abs(a) == IF a < 0 THEN 0 - a ELSE a

\* angle.abs() > 1e-10: an angle of k units is k * 1e-4 rad, above 1e-10 rad
\* exactly when k is not 0.
ExceedsEpsilon(angle) == Abs(angle) > 0

\* The inner while loop of RotationMergingPass::optimize: [angle, j] when the
\* run that started on qubit q stops at index j.
RECURSIVE MergeRun(_, _, _, _)
MergeRun(gates, q, angle, j) ==
  IF /\ j <= Len(gates)
     /\ gates[j].name = RZ
     /\ gates[j].qubits = <<q>>
     /\ gates[j].params # <<>>
  THEN MergeRun(gates, q, angle + gates[j].params[1], j + 1)
  ELSE [angle |-> angle, j |-> j]

\* MergeFrom as it would be with `i += 1` for `i = j` after a run.
RECURSIVE MergeFrom_NoSkip(_, _)
MergeFrom_NoSkip(gates, i) ==
  IF i > Len(gates) THEN <<>>
  ELSE
    LET g == gates[i]
    IN  IF g.name = RZ /\ Len(g.qubits) = 1 /\ g.params # <<>>
        THEN LET q == g.qubits[1]
                 run == MergeRun(gates, q, g.params[1], i + 1)
             IN  (IF ExceedsEpsilon(run.angle)
                  THEN <<Gate(RZ, <<q>>, <<run.angle>>)>>
                  ELSE <<>>) \o MergeFrom_NoSkip(gates, i + 1)
        ELSE <<g>> \o MergeFrom_NoSkip(gates, i + 1)

\* MergeFrom as it would be with the merged gate put on qubit `i` (the
\* gate's position, from 0) for `q`.
RECURSIVE MergeFrom_IndexQubit(_, _)
MergeFrom_IndexQubit(gates, i) ==
  IF i > Len(gates) THEN <<>>
  ELSE
    LET g == gates[i]
    IN  IF g.name = RZ /\ Len(g.qubits) = 1 /\ g.params # <<>>
        THEN LET q == g.qubits[1]
                 run == MergeRun(gates, q, g.params[1], i + 1)
             IN  (IF ExceedsEpsilon(run.angle)
                  THEN <<Gate(RZ, <<i - 1>>, <<run.angle>>)>>
                  ELSE <<>>) \o MergeFrom_IndexQubit(gates, run.j)
        ELSE <<g>> \o MergeFrom_IndexQubit(gates, i + 1)

\* The outer while loop of RotationMergingPass::optimize from index i.
RECURSIVE MergeFrom(_, _)
MergeFrom(gates, i) ==
  IF i > Len(gates) THEN <<>>
  ELSE
    LET g == gates[i]
    IN  IF g.name = RZ /\ Len(g.qubits) = 1 /\ g.params # <<>>
        THEN LET q == g.qubits[1]
                 run == MergeRun(gates, q, g.params[1], i + 1)
             IN  (IF ExceedsEpsilon(run.angle)
                  THEN <<Gate(RZ, <<q>>, <<run.angle>>)>>
                  ELSE <<>>) \o MergeFrom(gates, run.j)
        ELSE <<g>> \o MergeFrom(gates, i + 1)

\* RotationMergingPass::optimize
RotationMergingPass(circuit) ==
  QuantumCircuit(circuit.num_qubits, circuit.num_clbits,
                 MergeFrom(circuit.gates, 1))

\* ----------------------------------------------------------------- metrics

SetMax(S) == IF S = {} THEN 0 ELSE CHOOSE m \in S : \A x \in S : x <= m

\* qubit_time.get(q).cloned().unwrap_or(0); qubit q is index q + 1 here.
ClockOf(qubit_time, q) == IF q < Len(qubit_time) THEN qubit_time[q + 1] ELSE 0

\* DepthLoop as it would be with `end = start`, the step forgotten.
RECURSIVE DepthLoop_NoStep(_, _)
DepthLoop_NoStep(gates, qubit_time) ==
  IF gates = <<>> THEN qubit_time
  ELSE
    LET g == Head(gates)
        start == SetMax({ClockOf(qubit_time, g.qubits[k]) : k \in 1..Len(g.qubits)})
        touched == {g.qubits[k] : k \in 1..Len(g.qubits)}
    IN  DepthLoop_NoStep(Tail(gates),
          [t \in 1..Len(qubit_time) |->
             IF (t - 1) \in touched THEN start ELSE qubit_time[t]])

\* The loop of calculate_depth over the gates that remain.
RECURSIVE DepthLoop(_, _)
DepthLoop(gates, qubit_time) ==
  IF gates = <<>> THEN qubit_time
  ELSE
    LET g == Head(gates)
        start == SetMax({ClockOf(qubit_time, g.qubits[k]) : k \in 1..Len(g.qubits)})
        end == start + 1
        touched == {g.qubits[k] : k \in 1..Len(g.qubits)}
    IN  DepthLoop(Tail(gates),
          [t \in 1..Len(qubit_time) |->
             IF (t - 1) \in touched THEN end ELSE qubit_time[t]])

\* UniversalTranspiler::calculate_depth.  (The code allocates one clock per
\* declared qubit; a qubit count too large to allocate ends the process and is
\* not modelled: the sample counts are small.)
calculate_depth(circuit) ==
  IF circuit.num_qubits = 0 THEN 0
  ELSE LET qubit_time == DepthLoop(circuit.gates,
                                   [t \in 1..circuit.num_qubits |-> 0])
       IN  SetMax({qubit_time[t] : t \in 1..Len(qubit_time)})

\* saturating_sub as it would be as a plain difference read as signed.
saturating_sub_Plain(a, b) == a - b

\* usize::saturating_sub
saturating_sub(a, b) == IF a >= b THEN a - b ELSE 0

\* a as f64 / b as f64 * 100.0, as the fraction it denotes; 0/0 is NaN.
PercentOf(a, b) == [num |-> a * 100, den |-> b]

ZeroPercent == [num |-> 0, den |-> 1]

\* The two `if original == 0 { 0.0 } else { ... }` of transpile.
reduction(original, final) ==
  IF original = 0 THEN ZeroPercent
  ELSE PercentOf(saturating_sub(original, final), original)

\* -------------------------------------------------------------- transpiler

\* passes as it would be with the two passes listed the other way round.
passes_Reversed == <<"rotation_merging", "cancellation">>

\* UniversalTranspiler::new: the passes, in the order transpile runs them.
passes == <<"cancellation", "rotation_merging">>

\* p.optimize(&circ) for the pass that `pass` names.
optimize(pass, circuit) ==
  IF pass = "cancellation" THEN GateCancellationPass(circuit)
  ELSE RotationMergingPass(circuit)

\* ----------------------------------------------------------- sample inputs

\* main's backend: the chain 0 - 1 - 2 - 3 - 4.
DemoBackend ==
  BackendSpec("ibm_demo", 5, {<<0, 1>>, <<1, 2>>, <<2, 3>>, <<3, 4>>})

\* A backend whose one edge is stored as (2, 0).
PairBackend == BackendSpec("pair", 3, {<<2, 0>>})

SampleBackends == {DemoBackend, PairBackend}

L_qreg2  == <<"q","r","e","g"," ","q","[","2","]",";">>
L_qreg3  == <<"q","r","e","g"," ","q","[","3","]",";">>
L_qregx  == <<"q","r","e","g"," ","q","[","x","]",";">>
L_creg3  == <<"c","r","e","g"," ","c","[","3","]",";">>
L_header == <<"O","P","E","N","Q","A","S","M"," ","2",".","0",";">>
L_blank  == <<" "," ">>
L_note   == <<"/","/"," ","h"," ","q","[","0","]",";">>
L_h0     == <<"h"," ","q","[","0","]",";">>
L_x1     == <<" "," ","x"," ","q","[","1","]">>
L_cx01   == <<"c","x"," ","q","[","0","]",","," ","q","[","1","]",";">>
L_cx12   == <<"c","x"," ","q","[","1","]",","," ","q","[","2","]",";">>
L_cx02   == <<"c","x"," ","q","[","0","]",",","q","[","2","]",";">>
L_rzp    == <<"r","z","(","1",".","5",")"," ","q","[","0","]",";">>
L_rzm    == <<"r","z","(","-","1",".","5",")"," ","q","[","0","]",";">>
L_rzbad  == <<"r","z","(","q",")"," ","q","[","1","]",";">>
L_rzd    == <<"r","z","(","1",".","5","7","0","8",")"," ","q","[","2","]",";">>
L_hbare  == <<"h",";">>
L_xword  == <<"x","y","z">>

\* The lines the free sample programs are made of.
SampleLines ==
  {L_qreg2, L_h0, L_x1, L_cx01, L_cx02, L_rzp, L_rzm, L_hbare}

\* The program of main (lines 341-350), its blank first and last lines included.
DemoQasm ==
  <<<<>>, L_header, L_qreg3, L_creg3, L_h0, L_cx01, L_cx12, L_rzd, L_rzd, L_blank>>

\* Longer programs, and lines outside SampleLines.
Scenarios ==
  { DemoQasm,
    <<L_qreg2, L_h0, L_rzp, L_rzm, L_h0>>,
    <<L_qreg3, L_cx02, L_cx01, L_cx01, L_cx02>>,
    <<L_qregx, L_h0, L_rzbad, L_x1>>,
    <<L_header, L_qreg2, L_h0, L_cx01, L_xword, L_h0>>,
    <<L_note, L_qreg2, L_note, L_x1, L_blank, L_cx01>>,
    <<L_qreg3, L_rzd, L_rzbad, L_rzbad, L_cx12>> }

SeqsUpTo(S, n) == UNION {[1..k -> S] : k \in 0..n}

SamplePrograms == SeqsUpTo(SampleLines, MaxLines) \cup Scenarios

\* ------------------------------------------------------------------- state

VARIABLES
  input,                \* transpile's input text
  backend,              \* transpile's (and route's) backend
  pc,                   \* where transpile stands
  circ,                 \* transpile's local `circ`
  next_pass,            \* index into passes of the for loop's next pass
  original_depth, original_gate_count,
  final_depth, final_gate_count,
  depth_reduction, gate_reduction,
  result,               \* what transpile returned: "none" yet, "ok", "err"
  log,                  \* the stages executed so far, in order
  hist,                 \* a circuit and what the functions applied made of it
  ops,                  \* the functions applied to it
  depth                 \* what calculate_depth returned for hist[1]

vars ==
  <<input, backend, pc, circ, next_pass, original_depth, original_gate_count,
    final_depth, final_gate_count, depth_reduction, gate_reduction, result,
    log, hist, ops, depth>>

transpile_vars ==
  <<input, pc, circ, next_pass, original_depth, original_gate_count,
    final_depth, final_gate_count, depth_reduction, gate_reduction, result, log>>

fn_vars == <<hist, ops, depth>>

\* What a local holds before it is assigned: no circuit or percentage, no
\* count or depth, no result.
Unset == [unset |-> TRUE]

Unmeasured == 0 - 1

None == "none"

\* ------------------------------------------------- transpile, step by step

Init ==
  /\ input \in SamplePrograms
  /\ backend \in SampleBackends
  /\ pc = "parse"
  /\ circ = Unset
  /\ next_pass = 1
  /\ original_depth = Unmeasured /\ original_gate_count = Unmeasured
  /\ final_depth = Unmeasured /\ final_gate_count = Unmeasured
  /\ depth_reduction = Unset /\ gate_reduction = Unset
  /\ result = None
  /\ log = <<>>
  /\ hist = <<>> /\ ops = <<>> /\ depth = Unmeasured

\* line 262: parse, and the return of its error.
Parse ==
  /\ pc = "parse"
  /\ LET r == parse(input)
     IN  IF r.ok
         THEN /\ circ' = r.circ
              /\ pc' = "measure_original"
              /\ result' = result
         ELSE /\ circ' = circ
              /\ pc' = "done"
              /\ result' = "err"
  /\ log' = Append(log, "parse")
  /\ UNCHANGED <<input, backend, next_pass, original_depth, original_gate_count,
                 final_depth, final_gate_count, depth_reduction, gate_reduction>>
  /\ UNCHANGED fn_vars

\* lines 263-264
MeasureOriginal ==
  /\ pc = "measure_original"
  /\ original_depth' = calculate_depth(circ)
  /\ original_gate_count' = Len(circ.gates)
  /\ pc' = "route"
  /\ log' = Append(log, "measure")
  /\ UNCHANGED <<input, backend, circ, next_pass, final_depth, final_gate_count,
                 depth_reduction, gate_reduction, result>>
  /\ UNCHANGED fn_vars

\* line 267
Route ==
  /\ pc = "route"
  /\ circ' = route(circ, backend)
  /\ pc' = "optimize"
  /\ log' = Append(log, "route")
  /\ UNCHANGED <<input, backend, next_pass, original_depth, original_gate_count,
                 final_depth, final_gate_count, depth_reduction, gate_reduction,
                 result>>
  /\ UNCHANGED fn_vars

\* lines 270-272: one turn of the loop over the passes.
Optimize ==
  /\ pc = "optimize"
  /\ next_pass <= Len(passes)
  /\ circ' = optimize(passes[next_pass], circ)
  /\ next_pass' = next_pass + 1
  /\ log' = Append(log, passes[next_pass])
  /\ UNCHANGED <<input, backend, pc, original_depth, original_gate_count,
                 final_depth, final_gate_count, depth_reduction, gate_reduction,
                 result>>
  /\ UNCHANGED fn_vars

\* lines 274-275, once the loop is over.
MeasureFinal ==
  /\ pc = "optimize"
  /\ next_pass > Len(passes)
  /\ final_depth' = calculate_depth(circ)
  /\ final_gate_count' = Len(circ.gates)
  /\ pc' = "finish"
  /\ log' = Append(log, "measure")
  /\ UNCHANGED <<input, backend, circ, next_pass, original_depth,
                 original_gate_count, depth_reduction, gate_reduction, result>>
  /\ UNCHANGED fn_vars

\* lines 277-299: the two reductions and the Ok result.
Finish ==
  /\ pc = "finish"
  /\ depth_reduction' = reduction(original_depth, final_depth)
  /\ gate_reduction' = reduction(original_gate_count, final_gate_count)
  /\ result' = "ok"
  /\ pc' = "done"
  /\ UNCHANGED <<input, backend, circ, next_pass, original_depth,
                 original_gate_count, final_depth, final_gate_count, log>>
  /\ UNCHANGED fn_vars

Next ==
  \/ Parse
  \/ MeasureOriginal
  \/ Route
  \/ Optimize
  \/ MeasureFinal
  \/ Finish

Spec == Init /\ [][Next]_vars

\* ------------------------------------- the functions, applied on their own

\* h, cx on two edges of the chain, cx off the chain (and on the one edge of
\* PairBackend, reversed), and rz rotations that add up to zero or not.
SampleGates ==
  { Gate(H, <<0>>, <<>>),
    Gate(CX, <<0, 1>>, <<>>),
    Gate(CX, <<1, 2>>, <<>>),
    Gate(CX, <<0, 2>>, <<>>),
    Gate(RZ, <<0>>, <<15000>>),
    Gate(RZ, <<0>>, <<-15000>>),
    Gate(RZ, <<1>>, <<15000>>) }

\* Gates the parser cannot produce but a caller can build: a gate named swap,
\* a gate on no qubit, a gate on three, an rz without a parameter.
OddGates ==
  { Gate(SWAP, <<0, 2>>, <<>>),
    Gate(H, <<>>, <<>>),
    Gate(<<"c", "c", "x">>, <<0, 1, 2>>, <<>>),
    Gate(RZ, <<0>>, <<>>) }

\* Qubit counts: none, fewer than the gates name, as many as they name.
SampleQubitCounts == {0, 2, 3}

SampleCircuits ==
  {QuantumCircuit(n, n, gs) :
     n \in SampleQubitCounts,
     gs \in SeqsUpTo(SampleGates, MaxGates) \cup SeqsUpTo(OddGates \cup {Gate(CX, <<0, 2>>, <<>>)}, 2)}

FnInit ==
  /\ hist \in {<<c>> : c \in SampleCircuits}
  /\ ops = <<>>
  /\ depth = Unmeasured
  /\ backend = DemoBackend
  /\ input = <<>> /\ pc = "idle" /\ circ = Unset /\ next_pass = 1
  /\ original_depth = Unmeasured /\ original_gate_count = Unmeasured
  /\ final_depth = Unmeasured /\ final_gate_count = Unmeasured
  /\ depth_reduction = Unset /\ gate_reduction = Unset
  /\ result = None /\ log = <<>>

\* One pass applied to the circuit, or to what a pass made of it.
FnOptimize ==
  /\ Len(ops) < 2
  /\ \A k \in 1..Len(ops) : ops[k] \in {passes[i] : i \in 1..Len(passes)}
  /\ \E i \in 1..Len(passes) :
       /\ hist' = Append(hist, optimize(passes[i], Last(hist)))
       /\ ops' = Append(ops, passes[i])
  /\ UNCHANGED <<depth, backend>>
  /\ UNCHANGED transpile_vars

\* The router applied to the circuit, against either backend.
FnRoute ==
  /\ ops = <<>>
  /\ \E b \in SampleBackends :
       /\ backend' = b
       /\ hist' = Append(hist, route(Last(hist), b))
  /\ ops' = <<"route">>
  /\ UNCHANGED depth
  /\ UNCHANGED transpile_vars

\* calculate_depth applied to the circuit.
FnDepth ==
  /\ ops = <<>>
  /\ depth' = calculate_depth(hist[1])
  /\ ops' = <<"depth">>
  /\ UNCHANGED <<hist, backend>>
  /\ UNCHANGED transpile_vars

FnNext ==
  \/ FnOptimize
  \/ FnRoute
  \/ FnDepth

FnSpec == FnInit /\ [][FnNext]_vars

\* ================================================================== claims

FullLog ==
  <<"parse", "measure", "route", "cancellation", "rotation_merging", "measure">>

\* Whether two gates are rz rotations with a parameter on one and the same
\* single qubit.
SameQubitRz(g1, g2) ==
  /\ g1.name = RZ /\ g2.name = RZ
  /\ Len(g1.qubits) = 1 /\ g1.qubits = g2.qubits
  /\ g1.params # <<>> /\ g2.params # <<>>

\* Whether two gates have the same name and the same qubit list.
SameNameAndQubits(g1, g2) == g1.name = g2.name /\ g1.qubits = g2.qubits

\* ---------------------------------------------------------------------- C1
\* C1 (as claimed): on main's program and backend, routing inserts no swap,
\* cancellation removes nothing, and transpile ends with the gates
\* [h q0; cx q0,q1; cx q1,q2; rz(3.1416) q2], gate count 5 -> 4 and depth
\* 5 -> 4.
C1_EndToEnd ==
  (input = DemoQasm /\ backend = DemoBackend) =>
    /\ log = <<"parse", "measure", "route">> =>
         circ.gates = parse(DemoQasm).circ.gates
    /\ log = <<"parse", "measure", "route", "cancellation">> =>
         circ.gates = parse(DemoQasm).circ.gates
    /\ result = "ok" =>
         /\ circ.gates = << Gate(H, <<0>>, <<>>),
                            Gate(CX, <<0, 1>>, <<>>),
                            Gate(CX, <<1, 2>>, <<>>),
                            Gate(RZ, <<2>>, <<31416>>) >>
         /\ original_gate_count = 5 /\ final_gate_count = 4
         /\ original_depth = 5 /\ final_depth = 4

\* ---------------------------------------------------------------------- C2
HasCancellablePair(gates) ==
  \E k \in 1..(Len(gates) - 1) : SameNameAndQubits(gates[k], gates[k + 1])

\* C2 (as claimed): the cancellation pass applied to its own output gives
\* that output again.
C2_CancelIdempotent ==
  ops = <<"cancellation", "cancellation">> => hist[3] = hist[2]

\* C2 (amended): the cancellation pass applied to its own output gives that
\* output again exactly when the output holds no two adjacent gates of the
\* same name and qubit list; when it holds such a pair the second
\* application removes gates.
C2_CancelFixpoint ==
  ops = <<"cancellation", "cancellation">> =>
    /\ hist[3] = hist[2] <=> ~HasCancellablePair(hist[2].gates)
    /\ Len(hist[3].gates) <= Len(hist[2].gates)

\* A second application that removes gates the first one left.
C2_Witness ==
  /\ ops = <<"cancellation", "cancellation">>
  /\ HasCancellablePair(hist[2].gates)
  /\ Len(hist[3].gates) < Len(hist[2].gates)

\* ---------------------------------------------------------------------- C3
Coupled(b, g) ==
  \/ <<g.qubits[1], g.qubits[2]>> \in b.coupling_map
  \/ <<g.qubits[2], g.qubits[1]>> \in b.coupling_map

\* C3 (as claimed): in the circuit route returns, every gate on exactly two
\* qubits acts on a pair that is, in one order or the other, an edge of the
\* coupling map.
C3_RoutedOnEdges ==
  ops = <<"route">> =>
    \A k \in 1..Len(hist[2].gates) :
      Len(hist[2].gates[k].qubits) = 2 => Coupled(backend, hist[2].gates[k])

\* ---------------------------------------------------------------------- C4
NeedsSwap(b, g) == Len(g.qubits) = 2 /\ ~Coupled(b, g)

\* The number of gates among the first k that need a swap.
SwapsUpTo(b, gates, k) == Cardinality({j \in 1..k : NeedsSwap(b, gates[j])})

\* C4: route returns the input gates unchanged and in order, with one
\* parameterless swap on the same two qubits right before each two-qubit gate
\* whose pair is in the coupling map in neither order, and nothing else; the
\* qubit and clbit counts are kept.  On the chain: nothing before cx (1,2),
\* one swap (0,2) before cx (0,2).
C4_RoutingRule ==
  ops = <<"route">> =>
    LET gin == hist[1].gates
        gout == hist[2].gates
    IN  /\ hist[2].num_qubits = hist[1].num_qubits
        /\ hist[2].num_clbits = hist[1].num_clbits
        /\ Len(gout) = Len(gin) + SwapsUpTo(backend, gin, Len(gin))
        /\ \A k \in 1..Len(gin) :
             LET at == k + SwapsUpTo(backend, gin, k)
             IN  /\ gout[at] = gin[k]
                 /\ NeedsSwap(backend, gin[k]) =>
                      gout[at - 1] = Gate(SWAP, gin[k].qubits, <<>>)
        /\ (backend = DemoBackend /\ gin = <<Gate(CX, <<1, 2>>, <<>>)>>) =>
             gout = gin
        /\ (backend = DemoBackend /\ gin = <<Gate(CX, <<0, 2>>, <<>>)>>) =>
             gout = <<Gate(SWAP, <<0, 2>>, <<>>), Gate(CX, <<0, 2>>, <<>>)>>

\* A routed circuit with a swap before one two-qubit gate and none before
\* another, whose pair is an edge stored the other way round.
C4_Witness ==
  /\ ops = <<"route">>
  /\ backend = PairBackend
  /\ hist[1].gates = <<Gate(H, <<0>>, <<>>), Gate(CX, <<0, 1>>, <<>>),
                       Gate(CX, <<0, 2>>, <<>>)>>
  /\ hist[2].gates = <<Gate(H, <<0>>, <<>>), Gate(SWAP, <<0, 1>>, <<>>),
                       Gate(CX, <<0, 1>>, <<>>), Gate(CX, <<0, 2>>, <<>>)>>

\* ---------------------------------------------------------------------- C5
\* C5 (as claimed): calculate_depth is 1 for every circuit of exactly one
\* gate, whatever its qubit count.
C5_SingleGateDepthOne ==
  (ops = <<"depth">> /\ Len(hist[1].gates) = 1) => depth = 1

InRange(c, g) == \E k \in 1..Len(g.qubits) : g.qubits[k] < c.num_qubits

\* C5 (amended): for a circuit of exactly one gate, calculate_depth is 1 when
\* at least one qubit index of the gate is below the circuit's qubit count,
\* and 0 otherwise (a qubit count of 0, a gate on no qubit, a gate whose
\* indices are all out of range).
C5_SingleGateDepth ==
  (ops = <<"depth">> /\ Len(hist[1].gates) = 1) =>
    depth = (IF InRange(hist[1], hist[1].gates[1]) THEN 1 ELSE 0)

\* A one-gate circuit with a qubit in range and one out of range: depth 1.
C5_Witness ==
  /\ ops = <<"depth">>
  /\ hist[1].num_qubits = 2
  /\ hist[1].gates = <<Gate(CX, <<0, 2>>, <<>>)>>
  /\ depth = 1

\* ---------------------------------------------------------------------- C6
\* A percentage that is a number (no NaN) from 0 to 100.
FromZeroToHundred(r) == r.den > 0 /\ 0 <= r.num /\ r.num <= 100 * r.den

\* C6: whenever transpile succeeds, the gate-count reduction is
\* (original - final, saturating at 0) / original * 100 and lies in [0, 100],
\* also when routing made the final count the larger one; when the original
\* count is 0 it is the 0 of the branch that divides nothing.
C6_ReductionBounds ==
  result = "ok" =>
    /\ FromZeroToHundred(gate_reduction)
    /\ original_gate_count = 0 => gate_reduction = ZeroPercent
    /\ original_gate_count > 0 =>
         /\ gate_reduction.den = original_gate_count
         /\ gate_reduction.num =
              100 * (IF final_gate_count > original_gate_count THEN 0
                     ELSE original_gate_count - final_gate_count)

\* A successful run whose final gate count exceeds the original one.
C6_Witness ==
  /\ result = "ok"
  /\ final_gate_count > original_gate_count
  /\ gate_reduction.num = 0

\* ---------------------------------------------------------------------- C7
Delimiters == {"[", "]", " ", "\t", ";", ","}

\* What follows the first whitespace-separated token of a trimmed line.
AfterFirstToken(t) ==
  LET ends == {i \in 1..Len(t) : IsWhitespace(t[i])}
  IN  IF ends = {} THEN <<>>
      ELSE SubSeq(t, (CHOOSE i \in ends : \A j \in ends : i <= j), Len(t))

\* Whether a text holds an unsigned number standing between delimiters.
HoldsIndex(r) ==
  \E i \in 1..Len(r) : \E j \in i..Len(r) :
    /\ i = 1 \/ r[i - 1] \in Delimiters
    /\ j = Len(r) \/ r[j + 1] \in Delimiters
    /\ \A k \in (i + 1)..j : r[k] \in Digits
    /\ r[i] \in Digits \/ (r[i] = "+" /\ i < j)

\* A line the parser takes for a gate and finds no qubit index in.
GateLineWithoutQubit(l) ==
  LET t == Trim(l)
  IN  /\ t # <<>>
      /\ ~StartsWith(t, <<"/", "/">>)
      /\ ~StartsWith(t, <<"q", "r", "e", "g">>)
      /\ ~StartsWith(t, <<"c", "r", "e", "g">>)
      /\ t[1] \in {"h", "x"} \/ StartsWith(t, CX) \/ StartsWith(t, RZ)
      /\ ~HoldsIndex(AfterFirstToken(t))

IsPrefix(a, b) == Len(a) <= Len(b) /\ SubSeq(b, 1, Len(a)) = a

CancelThenMerge(c) == RotationMergingPass(GateCancellationPass(c))

MergeThenCancel(c) == GateCancellationPass(RotationMergingPass(c))

\* C8: the two passes do not commute (there is a circuit on which
\* cancellation then merging differs from merging then cancellation), and
\* transpile always runs cancellation first and rotation merging second: its
\* circuit is the routed one after cancellation, then after merging.
C8_PassOrder ==
  /\ \E gs \in SeqsUpTo(SampleGates, 2) :
       CancelThenMerge(QuantumCircuit(2, 0, gs))
         # MergeThenCancel(QuantumCircuit(2, 0, gs))
  /\ (pc = "optimize" /\ next_pass = 2) =>
       circ = GateCancellationPass(route(parse(input).circ, backend))
  /\ result = "ok" =>
       /\ circ = CancelThenMerge(route(parse(input).circ, backend))
       /\ SubSeq(log, 4, 5) = <<"cancellation", "rotation_merging">>

\* A run whose result the other order would have changed.
C8_Witness ==
  /\ result = "ok"
  /\ input = <<L_qreg2, L_h0, L_rzp, L_rzm, L_h0>>
  /\ circ # MergeThenCancel(route(parse(input).circ, backend))

\* ---------------------------------------------------------------------- C9
\* C9 (as claimed): the output of the rotation-merging pass holds no two
\* adjacent rz gates with a parameter on the same single qubit.
C9_NoAdjacentRz ==
  ops = <<"rotation_merging">> =>
    \A k \in 1..(Len(hist[2].gates) - 1) :
      ~SameQubitRz(hist[2].gates[k], hist[2].gates[k + 1])

\* Whether gates i..j are a maximal contiguous run of rz rotations with a
\* parameter on one single qubit.
IsRun(gates, i, j) ==
  /\ \A k \in i..j : SameQubitRz(gates[i], gates[k])
  /\ i = 1 \/ ~SameQubitRz(gates[i - 1], gates[i])
  /\ j = Len(gates) \/ ~SameQubitRz(gates[j], gates[j + 1])

RECURSIVE AngleSum(_, _, _)
AngleSum(gates, i, j) ==
  IF i > j THEN 0 ELSE gates[i].params[1] + AngleSum(gates, i + 1, j)

HasZeroRun(gates) ==
  \E i \in 1..Len(gates) : \E j \in i..Len(gates) :
    IsRun(gates, i, j) /\ ~(Abs(AngleSum(gates, i, j)) > 0)

\* C9 (amended): when the pass drops no run (every maximal contiguous run of
\* rz rotations on one qubit of the input adds up to an angle above the
\* threshold in absolute value), the output of the rotation-merging pass
\* holds no two adjacent rz gates with a parameter on the same single qubit.
C9_NoAdjacentRzUnlessDropped ==
  (ops = <<"rotation_merging">> /\ ~HasZeroRun(hist[1].gates)) =>
    \A k \in 1..(Len(hist[2].gates) - 1) :
      ~SameQubitRz(hist[2].gates[k], hist[2].gates[k + 1])

\* Three rotations on one qubit merged into one, next to the merged run of
\* another qubit.
C9_Witness ==
  /\ ops = <<"rotation_merging">>
  /\ hist[1].gates = <<Gate(RZ, <<0>>, <<15000>>), Gate(RZ, <<0>>, <<15000>>),
                       Gate(RZ, <<0>>, <<-15000>>), Gate(RZ, <<1>>, <<15000>>)>>
  /\ hist[2].gates = <<Gate(RZ, <<0>>, <<15000>>), Gate(RZ, <<1>>, <<15000>>)>>

\* --------------------------------------------------------------------- C10
\* C10: neither pass ever increases the depth: the depth of what a pass
\* returns is at most the depth of what it was given, out-of-range qubit
\* indices included.
C10_PassesNeverDeepen ==
  \A k \in 1..Len(ops) :
    ops[k] \in {"cancellation", "rotation_merging"} =>
      calculate_depth(hist[k + 1]) <= calculate_depth(hist[k])

\* A pass that lowers the depth of a circuit with an out-of-range index.
C10_Witness ==
  /\ ops = <<"rotation_merging">>
  /\ hist[1].num_qubits = 2
  /\ \E k \in 1..Len(hist[1].gates) : hist[1].gates[k].qubits = <<0, 2>>
  /\ calculate_depth(hist[2]) < calculate_depth(hist[1])

====
